---- MODULE Spec2Model ----
(***************************************************************************)
(* Model of the XGBoost binding class of src/loadXGBoost.js: a JavaScript  *)
(* facade over the exported functions of the compiled library              *)
(* (create_model, set_param, train_full_model, predict_one, save_model,    *)
(* get_file_content, load_model, free_memory_model) and the Emscripten     *)
(* heap (_malloc, _free, HEAPU8, getValue).                                *)
(*                                                                         *)
(* Every public call (constructor, train, predict, toJSON, load, free) is  *)
(* one action.  The library is a black box: what training produces and     *)
(* what a call on a released or absent handle does are nondeterministic    *)
(* inputs of the actions.                                                  *)
(***************************************************************************)
EXTENDS Integers, Sequences, FiniteSets, TLC

VARIABLES
    boosters,   \* the XGBoost instances: [model, checkLabels, options]
    objs,       \* the JavaScript option objects, by reference
    model,      \* the caller's variable holding what toJSON / JSON.parse returned
    lib,        \* the library's models, by handle: [live, content]
    heap,       \* offsets given out by xgboost._malloc and not yet freed
    last        \* the most recent public call: its arguments, calls, outcome

vars == <<boosters, objs, model, lib, heap, last>>

----------------------------------------------------------------------------
(* Bounds *)

MaxBoosters == 2       \* instances: the constructed one and the loaded ones
MaxHandles  == 2       \* models the library creates

----------------------------------------------------------------------------
(* JavaScript values: a number or a string, both carried by their text *)

Num(s) == [t |-> "number", v |-> s]
Str(s) == [t |-> "string", v |-> s]

\* value.toString(): a number becomes the string of its digits
toString(val) == [t |-> "string", v |-> val.v]

\* (n).toString() for the small counts Set.size can take here
NumText(n) == CASE n = 0 -> "0" [] n = 1 -> "1" [] n = 2 -> "2"
                [] n = 3 -> "3" [] OTHER -> "4"

Pair(k, val) == [k |-> k, val |-> val]

defaultOptions ==
    << Pair("booster", Str("gbtree")),
       Pair("objective", Str("reg:linear")),
       Pair("max_depth", Num("5")),
       Pair("eta", Num("0.1")),
       Pair("min_child_weight", Num("1")),
       Pair("subsample", Num("0.5")),
       Pair("colsample_bytree", Num("1")),
       Pair("silent", Num("1")),
       Pair("iterations", Num("200")) >>

Keys(o) == {o[i].k : i \in 1..Len(o)}
HasKey(o, k) == k \in Keys(o)
IndexOf(o, k) == CHOOSE i \in 1..Len(o) : o[i].k = k
Get(o, k) == o[IndexOf(o, k)].val

\* o[k] = val: an existing key keeps its position, a new key goes last
Put(o, k, val) ==
    IF HasKey(o, k)
    THEN [i \in 1..Len(o) |-> IF o[i].k = k THEN Pair(k, val) ELSE o[i]]
    ELSE Append(o, Pair(k, val))

RECURSIVE Assign(_, _)
\* Object.assign(target, source)
Assign(target, source) ==
    IF source = <<>> THEN target
    ELSE Assign(Put(target, Head(source).k, Head(source).val), Tail(source))

undefined == [t |-> "undefined", v |-> "undefined"]

\* o[k] on a key that may be absent
Lookup(o, k) == IF HasKey(o, k) THEN Get(o, k) ELSE undefined

----------------------------------------------------------------------------
(* Bytes *)

\* xgboost.getValue(ptr, 'i8'): the heap byte read as a signed 8-bit integer
getValueI8(b) == IF b >= 128 THEN b - 256 ELSE b

ToUint8Clamped(v) == IF v < 0 THEN 0 ELSE IF v > 255 THEN 255 ELSE v

\* new Uint8Array(array): each element taken modulo 2^8
ToUint8(v) == v % 256

Uint8Array(arr) == [i \in 1..Len(arr) |-> ToUint8(arr[i])]

----------------------------------------------------------------------------
(* The compiled library and the Emscripten heap, seen from the binding *)

NoModel == 0          \* this.model before train: undefined, passed as 0

\* Byte images of the models training can produce (the library's own format)
Contents == { <<0, 127>>, <<128, 255, 1>> }

\* What train_full_model leaves in the model: decided by the training data
\* (the library seeds its own random numbers)
Fit(X, y) == IF Cardinality({y[i] : i \in 1..Len(y)}) = 3 THEN <<128, 255, 1>> ELSE <<0, 127>>

\* A call across the foreign-function boundary.  h: the model handle passed
\* (for create_model and load_model: the handle returned); ptr: a heap
\* offset; n: a size, row count or iteration count; k, val: a parameter;
\* bytes: the bytes the callee reads or writes.
Call(fn, h, ptr, n, k, val, bytes) ==
    [fn |-> fn, h |-> h, ptr |-> ptr, n |-> n, k |-> k, val |-> val, bytes |-> bytes]

NoVal == Str("")

create_model(h, rows, cols) == Call("create_model", h, 0, rows, NumText(cols), NoVal, <<>>)
free_model(h)               == Call("free_memory_model", h, 0, 0, "", NoVal, <<>>)
set_param(h, k, val)        == Call("set_param", h, 0, 0, k, val, <<>>)
train_full_model(h, iters)  == Call("train_full_model", h, 0, 0, "", iters, <<>>)
predict_one(h, row)         == Call("predict_one", h, 0, Len(row), "", NoVal, row)
save_model(h, size)         == Call("save_model", h, 0, size, "", NoVal, <<>>)
get_file_content(ptr, size, bytes) == Call("get_file_content", 0, ptr, size, "", NoVal, bytes)
load_model(ptr, size, bytes, h)    == Call("load_model", h, ptr, size, "", NoVal, bytes)
malloc(ptr, size)           == Call("_malloc", 0, ptr, size, "", NoVal, <<>>)
free(ptr)                   == Call("_free", 0, ptr, 0, "", NoVal, <<>>)

\* xgboost._malloc: an offset not handed out at present
Malloc(hp) == CHOOSE o \in 1..(Cardinality(hp) + 1) :
                 o \notin hp /\ \A p \in 1..(o - 1) : p \in hp

RECURSIVE HeapAfter(_, _)
\* The outstanding allocations after a sequence of calls
HeapAfter(hp, calls) ==
    IF calls = <<>> THEN hp
    ELSE LET c == Head(calls) IN
         HeapAfter(CASE c.fn = "_malloc" -> hp \cup {c.ptr}
                     [] c.fn = "_free"   -> hp \ {c.ptr}
                     [] OTHER            -> hp,
                   Tail(calls))

IsLive(h) == h \in 1..Len(lib) /\ lib[h].live

\* What the library's load_model returns for a byte image: a fresh handle,
\* or 0 when the bytes are not a model
LoadModelReturn(bytes) == IF bytes \in Contents THEN Len(lib) + 1 ELSE 0

RECURSIVE Sum(_)
Sum(s) == IF s = <<>> THEN 0 ELSE Head(s) + Sum(Tail(s))

\* What predict_one returns on a live model: a function of the model and row
Pred(content, row) == (Sum(content) + Sum(row)) % 3

----------------------------------------------------------------------------
(* Inputs *)

Datasets  == { << <<3>>, <<1>>, <<2>> >> }
LabelVecs == { <<0, 1, 1>>, <<0, 1, 2>>, <<0, 1, 2, 0>> }

UserOptions ==
    { << Pair("objective", Str("multi:softmax")) >>,
      << Pair("iterations", Num("2")), Pair("max_depth", Num("3")) >> }

\* Model objects written by a caller rather than returned by toJSON
ForeignModels ==
    { [name |-> "ml-svm", model |-> <<0, 127>>,
       options |-> << Pair("iterations", Num("2")) >>],
      [name |-> "ml-xgboost", model |-> <<-1, 7>>,
       options |-> << Pair("iterations", Num("2")) >>],
      [name |-> "ml-xgboost", model |-> <<-128, -1, 1>>,
       options |-> << Pair("objective", Str("multi:softmax")), Pair("max_depth", Num("3")),
                      Pair("iterations", Num("2")), Pair("num_class", Str("3")) >>] }

\* Outcomes of a call on an absent or released handle: -1 is a trap, another
\* value is whatever the callee returns
Undefined == {-1, 0}

----------------------------------------------------------------------------
(* The handlers of class XGBoost *)

Range(f) == {f[i] : i \in DOMAIN f}

\* constructor: every option but 'iterations' is replaced by its toString()
Stringify(o) ==
    [i \in 1..Len(o) |->
        IF o[i].k = "iterations" THEN o[i] ELSE Pair(o[i].k, toString(o[i].val))]

\* constructor, options branch: this.checkLabels
checkLabelsOf(options) == Lookup(options, "objective") = Str("multi:softmax")

\* constructor, options branch: this.options
optionsOf(options) == Stringify(Assign(Assign(<<>>, defaultOptions), options))

loadCallsThrowFirst(bytes, ptr, h) ==
    IF h = 0
    THEN << malloc(ptr, Len(bytes)), load_model(ptr, Len(bytes), bytes, h) >>
    ELSE << malloc(ptr, Len(bytes)), load_model(ptr, Len(bytes), bytes, h), free(ptr) >>

\* constructor, load branch: the heap and library calls, made before the
\* returned handle is tested
loadCalls(bytes, ptr, h) ==
    << malloc(ptr, Len(bytes)), load_model(ptr, Len(bytes), bytes, h), free(ptr) >>

validNameAny(name) == TRUE

\* XGBoost.load: the format tag test
validName(name) == name = "ml-xgboost"

\* XGBoost.load(model) and the constructor's load branch
load(m) ==
    IF ~validName(m.name)
    THEN [outcome |-> "RangeError", calls |-> <<>>, h |-> NoModel]
    ELSE LET array == Uint8Array(m.model)
             ptr   == Malloc(heap)
             h     == LoadModelReturn(array)
         IN  [outcome |-> IF h = 0 THEN "Error" ELSE "ok",
              calls   |-> loadCalls(array, ptr, h),
              h       |-> h]

paramIndexesAll(o) == 1..Len(o)

\* train: the options handed to set_param
paramIndexes(o) == {i \in 1..Len(o) : o[i].k # "iterations"}

RECURSIVE setParams(_, _, _)
\* train: the set_param loop over Object.keys(this.options), from index i
setParams(h, o, i) ==
    IF i > Len(o) THEN <<>>
    ELSE (IF i \in paramIndexes(o) THEN << set_param(h, o[i].k, o[i].val) >> ELSE <<>>)
         \o setParams(h, o, i + 1)

\* train: the library calls
trainCalls(h, o, rows, cols) ==
    << create_model(h, rows, cols) >> \o setParams(h, o, 1)
        \o << train_full_model(h, Lookup(o, "iterations")) >>

\* train: this.options after the label check
numClass(b, o, y) ==
    IF b.checkLabels
    THEN Put(o, "num_class", Str(NumText(Cardinality(Range(y)))))
    ELSE o

\* toJSON: the heap and library calls once save_model succeeded
saveCalls(h, size, ptr, bytes) ==
    << save_model(h, size), malloc(ptr, size),
       get_file_content(ptr, size, bytes), free(ptr) >>

\* toJSON: the array read back from the heap with getValue(offset + i, 'i8')
readBack(bytes, size) == [i \in 1..size |-> getValueI8(bytes[i])]

\* What save_model can do with handle h: return -1, or write the model to
\* its file (which get_file_content then copies out) and return the size;
\* on a released handle, anything
SaveOutcomes(h) ==
    IF IsLive(h)
    THEN { [trap |-> FALSE, size |-> -1, file |-> <<>>],
           [trap |-> FALSE, size |-> Len(lib[h].content), file |-> lib[h].content] }
    ELSE { [trap |-> TRUE, size |-> -1, file |-> <<>>],
           [trap |-> FALSE, size |-> -1, file |-> <<>>],
           [trap |-> FALSE, size |-> 2, file |-> <<255, 7>>] }

----------------------------------------------------------------------------
(* State *)

\* The record of a public call.  rows, y: the sizes and labels train got;
\* res: the value returned (predict, toJSON) or the name and bytes of the
\* model object given (load); pre: the instance's handle and options before.
Last(op, inst, outcome, calls, rows, y, res, pre) ==
    [op |-> op, inst |-> inst, outcome |-> outcome, calls |-> calls,
     rows |-> rows, y |-> y, res |-> res, pre |-> pre]

Given(m) == [name |-> m.name, model |-> m.model]

\* No model object yet
NoSnap == [name |-> "", model |-> <<>>, options |-> 0, h |-> NoModel, sound |-> FALSE,
           taken |-> [model |-> <<>>, options |-> <<>>]]

NoPre == [model |-> NoModel, options |-> <<>>]
PreOf(i) == [model |-> boosters[i].model, options |-> objs[boosters[i].options]]

\* An option object is kept while an instance or the caller's model object
\* refers to it; the place of a collected one is <<>>
Reachable(r, mref) == r = mref \/ \E j \in 1..Len(boosters) : boosters[j].options = r

Collect(os, mref) == [r \in 1..Len(os) |-> IF Reachable(r, mref) THEN os[r] ELSE <<>>]

\* Where JSON.parse puts the options object it builds
FreshObj ==
    CHOOSE r \in 1..(Len(objs) + 1) :
        /\ r \in 1..Len(objs) => ~Reachable(r, 0)
        /\ \A q \in 1..(r - 1) : Reachable(q, 0)

StoreObj(os, ref, o) == IF ref \in 1..Len(os) THEN [os EXCEPT ![ref] = o] ELSE Append(os, o)

\* JSON.parse(JSON.stringify(o)) of an options object: a new object with
\* the same keys in the same order; a key whose value is undefined is dropped
JSONCopy(o) == SelectSeq(o, LAMBDA p : p.val.t # "undefined")

\* new XGBoost(options)
Init ==
    \E options \in UserOptions :
        /\ boosters = << [model |-> NoModel, checkLabels |-> checkLabelsOf(options),
                          options |-> 1] >>
        /\ objs = << optionsOf(options) >>
        /\ model = NoSnap
        /\ lib = <<>>
        /\ heap = {}
        /\ last = Last("new", 1, "ok", <<>>, 0, <<>>, <<>>, NoPre)

----------------------------------------------------------------------------
(* Actions: one per public call *)

\* booster.train(trainingSet, trainingValues)
Train(i, X, y) ==
    /\ i \in 1..Len(boosters)
    /\ Len(lib) < MaxHandles
    /\ LET b     == boosters[i]
           o     == numClass(b, objs[b.options], y)
           h     == Len(lib) + 1
           calls == trainCalls(h, o, Len(X), Len(X[1]))
       IN  /\ objs' = [objs EXCEPT ![b.options] = o]
           /\ boosters' = [boosters EXCEPT ![i].model = h]
           /\ lib' = Append(lib, [live |-> TRUE, content |-> Fit(X, y)])
           /\ last' = Last("train", i, "ok", calls, Len(X), y, <<>>, PreOf(i))
    /\ UNCHANGED <<model, heap>>

\* booster.predict(toPredict); u: what predict_one does when the handle is
\* absent or released
Predict(i, D, u) ==
    /\ i \in 1..Len(boosters)
    /\ LET h    == boosters[i].model
           live == IsLive(h)
       IN  /\ live => u = 0
           /\ last' =
                IF ~live /\ u = -1
                THEN Last("predict", i, "RuntimeError", << predict_one(h, D[1]) >>,
                          Len(D), <<>>, <<>>, NoPre)
                ELSE Last("predict", i, "ok",
                          [r \in 1..Len(D) |-> predict_one(h, D[r])], Len(D), <<>>,
                          [r \in 1..Len(D) |->
                              IF live THEN Pred(lib[h].content, D[r]) ELSE u],
                          NoPre)
    /\ UNCHANGED <<boosters, objs, model, lib, heap>>

\* booster.toJSON(), or JSON.parse(JSON.stringify(booster)) when json;
\* sv: what save_model does
ToJSON(i, json, sv) ==
    /\ i \in 1..Len(boosters)
    /\ LET b == boosters[i]
           h == b.model
       IN  IF h = NoModel
           THEN /\ sv.trap /\ ~json
                /\ last' = Last("toJSON", i, "Error", <<>>, 0, <<>>, <<>>, NoPre)
                /\ UNCHANGED <<objs, model, heap>>
           ELSE IF sv.trap \/ sv.size = -1
           THEN /\ ~json
                /\ last' = Last("toJSON", i,
                                IF sv.trap THEN "RuntimeError" ELSE "Error",
                                << save_model(h, sv.size) >>,
                                0, <<>>, <<>>, NoPre)
                /\ UNCHANGED <<objs, model, heap>>
           ELSE LET ptr   == Malloc(heap)
                    bytes == SubSeq(sv.file, 1, sv.size)
                    calls == saveCalls(h, sv.size, ptr, bytes)
                    array == readBack(bytes, sv.size)
                    ref   == IF json THEN FreshObj ELSE b.options
                IN  /\ heap' = HeapAfter(heap, calls)
                    /\ objs' = Collect(IF json THEN StoreObj(objs, ref, JSONCopy(objs[b.options]))
                                               ELSE objs, ref)
                    /\ model' = [name |-> "ml-xgboost", model |-> array, options |-> ref,
                                 h |-> h, sound |-> IsLive(h),
                                 taken |-> [model |-> array, options |-> objs[b.options]]]
                    /\ last' = Last("toJSON", i, "ok", calls, 0, <<>>, array, NoPre)
    /\ UNCHANGED <<boosters, lib>>

\* XGBoost.load(model) on the model object obtained from toJSON
Load ==
    /\ model # NoSnap
    /\ LET r == load(model)
       IN  /\ heap' = HeapAfter(heap, r.calls)
           /\ IF r.outcome = "ok"
              THEN /\ Len(boosters) < MaxBoosters
                   /\ Len(lib) < MaxHandles
                   /\ lib' = Append(lib, [live |-> TRUE, content |-> r.calls[2].bytes])
                   /\ objs' = [objs EXCEPT ![model.options] = Stringify(@)]
                   /\ boosters' = Append(boosters,
                         [model |-> r.h, checkLabels |-> FALSE, options |-> model.options])
                   /\ last' = Last("load", Len(boosters) + 1, "ok", r.calls,
                                   0, <<>>, Given(model), NoPre)
              ELSE /\ last' = Last("load", 0, r.outcome, r.calls, 0, <<>>,
                                   Given(model), NoPre)
                   /\ UNCHANGED <<boosters, objs, lib>>
    /\ UNCHANGED model

\* XGBoost.load(model) on a model object the caller wrote
LoadForeign(m) ==
    /\ LET r == load(m)
       IN  /\ heap' = HeapAfter(heap, r.calls)
           /\ IF r.outcome = "ok"
              THEN /\ Len(boosters) < MaxBoosters
                   /\ Len(lib) < MaxHandles
                   /\ lib' = Append(lib, [live |-> TRUE, content |-> r.calls[2].bytes])
                   /\ objs' = Append(objs, Stringify(m.options))
                   /\ boosters' = Append(boosters,
                         [model |-> r.h, checkLabels |-> FALSE, options |-> Len(objs) + 1])
                   /\ last' = Last("loadForeign", Len(boosters) + 1, "ok", r.calls,
                                   0, <<>>, Given(m), NoPre)
              ELSE /\ last' = Last("loadForeign", 0, r.outcome, r.calls, 0, <<>>,
                                   Given(m), NoPre)
                   /\ UNCHANGED <<boosters, objs, lib>>
    /\ UNCHANGED model

\* booster.free(); u: what free_memory_model does when the handle is absent
\* or released
Free(i, u) ==
    /\ i \in 1..Len(boosters)
    /\ LET h == boosters[i].model
       IN  /\ IsLive(h) => u = 0
           /\ lib' = IF IsLive(h) THEN [lib EXCEPT ![h].live = FALSE] ELSE lib
           /\ last' = Last("free", i, IF u = -1 THEN "RuntimeError" ELSE "ok",
                           << free_model(h) >>, 0, <<>>, <<>>,
                           [model |-> IF IsLive(h) THEN h ELSE NoModel, options |-> <<>>])
    /\ UNCHANGED <<boosters, objs, model, heap>>

Next ==
    \/ \E i \in 1..MaxBoosters, X \in Datasets, y \in LabelVecs : Train(i, X, y)
    \/ \E i \in 1..MaxBoosters, D \in Datasets, u \in Undefined : Predict(i, D, u)
    \/ \E i \in 1..MaxBoosters, json \in BOOLEAN :
          \E sv \in SaveOutcomes(IF i \in 1..Len(boosters) THEN boosters[i].model ELSE NoModel) :
             ToJSON(i, json, sv)
    \/ Load
    \/ \E m \in ForeignModels : LoadForeign(m)
    \/ \E i \in 1..MaxBoosters, u \in Undefined : Free(i, u)

Spec == Init /\ [][Next]_vars

----------------------------------------------------------------------------
(* Properties *)

Errors == {"Error", "RangeError", "RuntimeError", "NotTrainedError", "DimensionMismatch"}

CallsOf(fn) == {i \in 1..Len(last.calls) : last.calls[i].fn = fn}

\* The model object the caller holds came from toJSON on a live model, and
\* the instance it came from still holds that model
Serialized ==
    /\ model.sound
    /\ IsLive(model.h)
    /\ \E j \in 1..Len(boosters) : boosters[j].model = model.h

\* C1: loading what toJSON returned for a trained booster (directly or after
\* JSON.stringify/JSON.parse) succeeds, hands load_model the bytes the model
\* was saved as, each in its position, and gives a booster with the same
\* predictions on every dataset and the same options
C1_RoundTrip ==
    (last.op = "load" /\ Serialized) =>
        /\ last.outcome = "ok"
        /\ \E i \in CallsOf("load_model") :
              last.calls[i].bytes = lib[model.h].content
        /\ last.inst \in 1..Len(boosters)
        /\ LET b == boosters[last.inst] IN
              /\ IsLive(b.model)
              /\ \A D \in Datasets : \A r \in 1..Len(D) :
                    Pred(lib[b.model].content, D[r]) = Pred(lib[model.h].content, D[r])
              /\ lib[b.model].content = lib[model.h].content
              /\ objs[b.options] = model.taken.options
              /\ \A j \in 1..Len(boosters) :
                    boosters[j].model = model.h => objs[b.options] = objs[boosters[j].options]

\* A multi-class booster trained on three classes went through JSON and was
\* loaded: bytes above 127 and a copied options object are involved
C1_Witness ==
    /\ last.op = "load" /\ Serialized /\ last.outcome = "ok"
    /\ \E i \in 1..Len(model.model) : model.model[i] < 0
    /\ \A j \in 1..Len(boosters) : boosters[j].model = model.h =>
          boosters[j].options # model.options
    /\ Lookup(objs[boosters[last.inst].options], "num_class") = Str("3")

\* C2: predict on a booster that has no model fails and never reaches
\* predict_one
C2_PredictBeforeTrainFails ==
    (last.op = "predict" /\ boosters[last.inst].model = NoModel) =>
        /\ last.outcome \in Errors
        /\ CallsOf("predict_one") = {}

\* C3: train with a labels length different from the row count fails, makes
\* no library call and leaves the handle and the options as they were
C3_DimensionMismatchRejected ==
    (last.op = "train" /\ Len(last.y) # last.rows) =>
        /\ last.outcome = "DimensionMismatch"
        /\ last.calls = <<>>
        /\ boosters[last.inst].model = last.pre.model
        /\ objs[boosters[last.inst].options] = last.pre.options

\* The instance of the last call had been freed before the call
UsedAfterFree ==
    /\ last.op \in {"predict", "toJSON", "free"}
    /\ boosters[last.inst].model # NoModel
    /\ ~IsLive(boosters[last.inst].model)
    /\ last.op = "free" => last.pre.model = NoModel

\* C4: a use of a freed instance fails and never passes the freed handle on
C4_FailFastAfterFree ==
    UsedAfterFree =>
        /\ last.outcome \in Errors
        /\ \A i \in 1..Len(last.calls) : last.calls[i].h # boosters[last.inst].model

\* C5: load of a model object whose name is not 'ml-xgboost' raises the
\* invalid-model error, returns no instance, allocates nothing and never
\* calls load_model
C5_InvalidNameRejected ==
    (last.op \in {"load", "loadForeign"} /\ last.res.name # "ml-xgboost") =>
        /\ last.outcome = "RangeError"
        /\ last.inst = 0
        /\ last.calls = <<>>
        /\ heap = {}

C5_Witness ==
    /\ last.op = "loadForeign"
    /\ last.res.name = "ml-svm"
    /\ last.outcome = "RangeError"
    /\ Len(boosters) = 1

\* C6: every train of a multi:softmax booster hands set_param a num_class
\* equal to the number of distinct labels of that call
C6_NumClassInferred ==
    (last.op = "train"
        /\ Lookup(objs[boosters[last.inst].options], "objective") = Str("multi:softmax")) =>
        \E i \in CallsOf("set_param") :
            /\ last.calls[i].k = "num_class"
            /\ last.calls[i].val = Str(NumText(Cardinality(Range(last.y))))

\* C7: the object toJSON returned keeps the bytes and options it had
C7_SnapshotImmutable ==
    model # NoSnap =>
        /\ model.model = model.taken.model
        /\ objs[model.options] = model.taken.options

\* C8: train calls create_model once, then set_param once per option other
\* than 'iterations' with the new handle and the option's string, then
\* train_full_model once with that handle and the iterations option
C8_TrainCallOrder ==
    last.op = "train" =>
        LET c == last.calls
            h == boosters[last.inst].model
            o == objs[boosters[last.inst].options]
        IN  /\ last.outcome = "ok"
            /\ h = Len(lib) /\ h # last.pre.model
            /\ CallsOf("create_model") = {1}
            /\ c[1].h = h
            /\ CallsOf("train_full_model") = {Len(c)}
            /\ c[Len(c)].h = h
            /\ c[Len(c)].val = Lookup(o, "iterations")
            /\ CallsOf("set_param") = 2..(Len(c) - 1)
            /\ \A i \in CallsOf("set_param") :
                  /\ c[i].h = h
                  /\ c[i].k \in Keys(o) \ {"iterations"}
                  /\ c[i].val = Get(o, c[i].k)
                  /\ c[i].val.t = "string"
            /\ \A k \in Keys(o) \ {"iterations"} :
                  Cardinality({i \in CallsOf("set_param") : c[i].k = k}) = 1

C8_Witness ==
    /\ last.op = "train"
    /\ last.pre.model # NoModel
    /\ HasKey(objs[boosters[last.inst].options], "num_class")
    /\ Len(last.calls) = 11

\* C9: every handle the library gave out is the current handle of an
\* instance or was freed, and no handle is freed twice
C9_NoHandleLeak ==
    /\ \A h \in 1..Len(lib) :
          lib[h].live => \E j \in 1..Len(boosters) : boosters[j].model = h
    /\ ~(UsedAfterFree /\ last.op = "free")

\* C10: every _malloc of a call is followed, within the call, by exactly one
\* _free of the same offset, also when load_model returns 0; toJSON does not
\* allocate when save_model returns -1; nothing is outstanding between calls
C10_ScratchBalanced ==
    LET c == last.calls IN
        /\ heap = {}
        /\ \A i \in CallsOf("_malloc") :
              Cardinality({j \in CallsOf("_free") : j > i /\ c[j].ptr = c[i].ptr}) = 1
        /\ \A j \in CallsOf("_free") :
              \E i \in CallsOf("_malloc") : i < j /\ c[i].ptr = c[j].ptr
        /\ (last.op = "toJSON" /\ last.outcome # "ok") => CallsOf("_malloc") = {}
        /\ (last.op = "toJSON" /\ last.outcome = "ok") => Cardinality(CallsOf("_malloc")) = 1
        /\ (last.op \in {"load", "loadForeign"} /\ last.outcome # "RangeError") =>
              Cardinality(CallsOf("_malloc")) = 1

\* load_model returned 0 and the constructor threw
C10_Witness ==
    /\ last.op = "loadForeign"
    /\ last.outcome = "Error"
    /\ \E i \in CallsOf("load_model") : last.calls[i].h = 0

====
